---- MODULE Spec2Model ----
(***************************************************************************)
(* FORGE.ObjectRenderer (src/src/render/ObjectRenderer.js): the renderer   *)
(* of a list of hotspot objects, one render call per viewport, with the    *)
(* picking pass and the destroy sequence.                                  *)
(***************************************************************************)
EXTENDS Integers, Sequences, FiniteSets, TLC

\* ------------------------------------------------------------- bounds
MaxObjects == 2
NumViewports == 2
MaxRenders == 3
MaxMutations == 1

\* ------------------------------------------------------------- values
NULL == "null"
\* a viewport is known by its uid, 1..NumViewports; no viewport is uid 0
NoViewport == 0
\* FORGE.ViewType
UNDEFINED == "undefined"
RECTILINEAR == "rectilinear"
GOPRO == "gopro"
ViewTypes == {UNDEFINED, RECTILINEAR, GOPRO}
\* FORGE.HotspotMaterial.types
GRAPHICS == "graphics"
IMAGE == "image"
MaterialTypes == {GRAPHICS, IMAGE}
\* THREE side constants returned by material.getThreeSide()
FrontSide == 0
DoubleSide == 2
Sides == {FrontSide, DoubleSide}
\* opacity, in percent
Opacities == {50, 100}

Viewports == 1..NumViewports
\* mesh.id of the n-th mesh of the host's list (THREE numbers its objects)
FirstMeshId == 11
MeshId(n) == FirstMeshId + 2 * (n - 1)
\* the ids asked for: every mesh id of the list, one past them, and 0
QueryIds == {0} \cup {MeshId(n) : n \in 1..(MaxObjects + 1)}

VIEWER == "viewer"
SCENE == "scene"
PICKING == "picking"
OBJECTS == "objects"

\* ------------------------------------------------------------- materials
\* A material of the renderer's pool, one per (view type, shader type,
\* transparent), or the material a mesh was created with (pool = FALSE).
PoolMaterial(viewType, shaderType, transparent) ==
    [pool |-> TRUE, view |-> viewType, shader |-> shaderType,
     transparent |-> transparent, mesh |-> 0]
OwnMaterial(id) ==
    [pool |-> FALSE, view |-> NULL, shader |-> NULL, transparent |-> FALSE, mesh |-> id]
Materials ==
    {PoolMaterial(v, s, t) : v \in ViewTypes, s \in {"color", "map"}, t \in BOOLEAN}
    \cup {OwnMaterial(MeshId(n)) : n \in 1..MaxObjects}

\* viewer.renderer.getMaterialForView: the shared material of the key
getMaterialForView(viewType, shaderType, transparent) ==
    PoolMaterial(viewType, shaderType, transparent)

\* mesh.userData.pickingColor of a mesh that never got one
NoColor == <<>>

\* FORGE.Picking.colorFromObjectID: new THREE.Color(id), as <<r, g, b>>
colorFromObjectID(id) ==
    <<(id \div 65536) % 256, (id \div 256) % 256, id % 256>>

\* state of a material object before any render touched it
NewMaterialState(m) ==
    [transparent |-> m.transparent, side |-> FrontSide, opacity |-> 100,
     program |-> FALSE, uniforms |-> NULL]

\* ------------------------------------------------------------- state
VARIABLES
    phase,          \* "new" before the constructor ran, "alive", "destroyed"
    viewer,         \* this._viewer
    scene,          \* this._scene: NULL or the THREE.Scene made by _boot
    children,       \* that scene's children: the mesh ids, or NULL once destroyed
    objects,        \* this._objects: NULL or the reference to the host's list
    lastViewport,   \* this._lastViewport: NoViewport or a viewport
    lastViewType,   \* this._lastViewType
    picking,        \* this._picking
    list,           \* the host's array of Object3D, referenced by this._objects
    mats,           \* the state of every material object
    viewType,       \* viewport.view.current.type of every viewport
    activeViewport, \* viewer.story.scene.activeViewport
    pickingDestroys,\* calls of FORGE.Picking.prototype.destroy so far
    renderedOnce,   \* a render call got past the empty-scene return
    frame,          \* the viewports the frame driver renders in every frame, in order
    cursor,         \* render calls the driver made in the frame in progress
    frameNo,        \* frames completed since a view type or a transparency changed
    call,           \* what the last operation did
    renders,        \* render calls so far
    mutations       \* external changes so far

vars == <<phase, viewer, scene, children, objects, lastViewport, lastViewType, picking,
          list, mats, viewType, activeViewport, pickingDestroys, renderedOnce,
          frame, cursor, frameNo, call, renders, mutations>>

Indices == 1..Len(list)

NoPre ==
    [lastViewport |-> NoViewport, lastViewType |-> NULL, first |-> FALSE,
     viewType |-> NULL, transparent |-> <<>>, program |-> <<>>]

NoCall ==
    [op |-> "none", viewport |-> 0, frame |-> 0, returned |-> FALSE, replaced |-> {},
     pre |-> NoPre, compiles |-> 0, draws |-> 0, picks |-> <<>>, uniforms |-> <<>>,
     exception |-> NULL, id |-> 0, result |-> 0,
     pickable |-> <<>>, writes |-> <<>>, uncompiled |-> {}, effects |-> <<>>]

\* the host's Object3D number n, before the renderer saw it
NewObject(n) ==
    [material |-> [type |-> GRAPHICS, transparent |-> FALSE,
                   opacity |-> 100, side |-> FrontSide],
     mesh |-> [id |-> MeshId(n), material |-> OwnMaterial(MeshId(n)),
               frustumCulled |-> TRUE, pickingColor |-> NoColor],
     ready |-> (n % 2 = 1), interactive |-> TRUE]

Init ==
    /\ phase = "new"
    /\ viewer = NULL /\ scene = NULL /\ children = <<>> /\ objects = NULL
    /\ lastViewport = NoViewport /\ lastViewType = NULL /\ picking = NULL
    /\ \E n \in 0..MaxObjects : list = [i \in 1..n |-> NewObject(i)]
    /\ mats = [m \in Materials |-> NewMaterialState(m)]
    /\ viewType = [v \in Viewports |-> RECTILINEAR]
    /\ activeViewport = 1
    /\ pickingDestroys = 0
    /\ renderedOnce = FALSE
    /\ frame = <<>> /\ cursor = 0 /\ frameNo = 0
    /\ call = NoCall
    /\ renders = 0
    /\ mutations = 0

\* ------------------------------------------------------------- constructor
\* _boot with the loop ending one object early
RECURSIVE BootLoop_SkipsLast(_, _)
BootLoop_SkipsLast(st, i) ==
    IF i >= Len(st.list) THEN st
    ELSE BootLoop_SkipsLast(
           [list |-> [st.list EXCEPT ![i].mesh.pickingColor =
                                        colorFromObjectID(st.list[i].mesh.id)],
            children |-> Append(st.children, st.list[i].mesh.id)],
           i + 1)

\* _boot: tag every mesh with its picking color and add it to the scene
RECURSIVE BootLoop(_, _)
BootLoop(st, i) ==
    IF i > Len(st.list) THEN st
    ELSE BootLoop(
           [list |-> [st.list EXCEPT ![i].mesh.pickingColor =
                                        colorFromObjectID(st.list[i].mesh.id)],
            children |-> Append(st.children, st.list[i].mesh.id)],
           i + 1)

\* the constructor leaving this._lastViewType unset
Construct_NoViewType ==
    /\ phase = "new"
    /\ LET booted == BootLoop([list |-> list, children |-> <<>>], 1) IN
          /\ list' = booted.list
          /\ children' = booted.children
    /\ scene' = SCENE
    /\ viewer' = VIEWER
    /\ objects' = OBJECTS
    /\ lastViewport' = NoViewport
    /\ lastViewType' = NULL
    /\ picking' = PICKING
    /\ phase' = "alive"
    /\ call' = [NoCall EXCEPT !.op = "construct"]
    /\ UNCHANGED <<mats, viewType, activeViewport, pickingDestroys, renderedOnce,
                   frame, cursor, frameNo, renders, mutations>>

Construct ==
    /\ phase = "new"
    /\ LET booted == BootLoop([list |-> list, children |-> <<>>], 1) IN
          /\ list' = booted.list
          /\ children' = booted.children
    /\ scene' = SCENE
    /\ viewer' = VIEWER
    /\ objects' = OBJECTS
    /\ lastViewport' = NoViewport
    /\ lastViewType' = UNDEFINED
    /\ picking' = PICKING
    /\ phase' = "alive"
    /\ call' = [NoCall EXCEPT !.op = "construct"]
    /\ UNCHANGED <<mats, viewType, activeViewport, pickingDestroys, renderedOnce,
                   frame, cursor, frameNo, renders, mutations>>

\* ------------------------------------------------------------- the host
\* Between two render calls the host changes the objects' flags and material
\* descriptors, the viewports' views and the active viewport.
Mutate ==
    /\ phase = "alive"
    /\ cursor = 0
    /\ mutations < MaxMutations
    /\ mutations' = mutations + 1
    /\ call' = [NoCall EXCEPT !.op = "mutate"]
    /\ UNCHANGED <<phase, viewer, scene, children, objects, lastViewport, lastViewType,
                   picking, mats, pickingDestroys, renderedOnce, renders, frame, cursor>>

SetReady ==
    /\ Mutate
    /\ \E j \in Indices : list' = [list EXCEPT ![j].ready = ~@]
    /\ UNCHANGED <<viewType, activeViewport, frameNo>>

SetInteractive ==
    /\ Mutate
    /\ \E j \in Indices : list' = [list EXCEPT ![j].interactive = ~@]
    /\ UNCHANGED <<viewType, activeViewport, frameNo>>

SetTransparent ==
    /\ Mutate
    /\ \E j \in Indices : list' = [list EXCEPT ![j].material.transparent = ~@]
    /\ frameNo' = 0
    /\ UNCHANGED <<viewType, activeViewport>>

SetMaterialType ==
    /\ Mutate
    /\ \E j \in Indices : \E t \in MaterialTypes \ {list[j].material.type} :
          list' = [list EXCEPT ![j].material.type = t]
    /\ UNCHANGED <<viewType, activeViewport, frameNo>>

SetOpacity ==
    /\ Mutate
    /\ \E j \in Indices : \E o \in Opacities \ {list[j].material.opacity} :
          list' = [list EXCEPT ![j].material.opacity = o]
    /\ UNCHANGED <<viewType, activeViewport, frameNo>>

SetSide ==
    /\ Mutate
    /\ \E j \in Indices : \E sd \in Sides \ {list[j].material.side} :
          list' = [list EXCEPT ![j].material.side = sd]
    /\ UNCHANGED <<viewType, activeViewport, frameNo>>

SetView ==
    /\ Mutate
    /\ \E v \in Viewports : \E t \in ViewTypes \ {viewType[v]} :
          viewType' = [viewType EXCEPT ![v] = t]
    /\ frameNo' = 0
    /\ UNCHANGED <<list, activeViewport>>

SetActiveViewport ==
    /\ Mutate
    /\ \E v \in Viewports \ {activeViewport} : activeViewport' = v
    /\ UNCHANGED <<list, viewType, frameNo>>

\* ------------------------------------------------------------- queries
\* the filter without the test of object.interactive
RECURSIVE Filter_ReadyOnly(_, _)
Filter_ReadyOnly(l, i) ==
    IF i > Len(l) THEN <<>>
    ELSE IF l[i].ready = TRUE
         THEN <<i>> \o Filter_ReadyOnly(l, i + 1)
         ELSE Filter_ReadyOnly(l, i + 1)

\* the filter with "||" for "&&"
RECURSIVE Filter_Either(_, _)
Filter_Either(l, i) ==
    IF i > Len(l) THEN <<>>
    ELSE IF l[i].ready = TRUE \/ l[i].interactive = TRUE
         THEN <<i>> \o Filter_Either(l, i + 1)
         ELSE Filter_Either(l, i + 1)

\* the indices, in list order, of the objects that are ready and interactive
RECURSIVE Filter(_, _)
Filter(l, i) ==
    IF i > Len(l) THEN <<>>
    ELSE IF l[i].ready = TRUE /\ l[i].interactive = TRUE
         THEN <<i>> \o Filter(l, i + 1)
         ELSE Filter(l, i + 1)

getPickableObjects(l) == Filter(l, 1)

\* Array.prototype.find over the pickable objects: the first whose mesh has
\* the id, as its index in the list, 0 for undefined
RECURSIVE Find(_, _, _, _)
Find(l, pickable, id, k) ==
    IF k > Len(pickable) THEN 0
    ELSE IF l[pickable[k]].mesh.id = id THEN pickable[k]
         ELSE Find(l, pickable, id, k + 1)

getPickableObjectWithId(l, id) == Find(l, getPickableObjects(l), id, 1)

GetPickableObjectWithId ==
    /\ phase = "alive"
    /\ \E id \in QueryIds :
          call' = [NoCall EXCEPT !.op = "get", !.id = id,
                                 !.pickable = getPickableObjects(list),
                                 !.result = getPickableObjectWithId(list, id)]
    /\ UNCHANGED <<phase, viewer, scene, children, objects, lastViewport, lastViewType,
                   picking, list, mats, viewType, activeViewport, pickingDestroys,
                   renderedOnce, frame, cursor, frameNo, renders, mutations>>

\* ------------------------------------------------------------- render
\* the condition without the comparison of the view types
RenewNeeded_NoViewType(lvp, lvt, vp, vt, meshTransparent, transparent) ==
    \/ lvp = NoViewport
    \/ lvp # vp
    \/ meshTransparent # transparent

\* the condition of "Renew material if needed"
RenewNeeded(lvp, lvt, vp, vt, meshTransparent, transparent) ==
    \/ lvp = NoViewport
    \/ lvp # vp
    \/ lvt = UNDEFINED
    \/ lvt # vt
    \/ meshTransparent # transparent

\* material.type to the shader type of the pool
ShaderType(type) == IF type = GRAPHICS THEN "color" ELSE "map"

\* the turn of the loop with the update of the material attributes and of the
\* uniforms inside the "if" of the renewal
RenderObject_RefreshOnRenew(st, j, vp, vt) ==
    LET object == st.list[j]
        material == object.material
        old == object.mesh.material
        needed == st.compilationNeeded \/ ~st.mats[old].program
        renew == RenewNeeded(lastViewport, lastViewType, vp, vt,
                             st.mats[old].transparent, material.transparent)
        new == IF renew
               THEN getMaterialForView(vt, ShaderType(material.type), material.transparent)
               ELSE old
        culled == IF renew THEN vt = RECTILINEAR ELSE object.mesh.frustumCulled
    IN  [list |-> [st.list EXCEPT ![j].mesh.frustumCulled = culled,
                                  ![j].mesh.material = new],
         mats |-> IF renew
                  THEN [st.mats EXCEPT ![new].side = material.side,
                                       ![new].transparent = material.transparent,
                                       ![new].opacity = material.opacity,
                                       ![new].uniforms = vt]
                  ELSE st.mats,
         compilationNeeded |-> needed,
         replaced |-> IF renew THEN st.replaced \cup {j} ELSE st.replaced,
         writes |-> IF renew
                    THEN Append(st.writes,
                                [material |-> new, side |-> material.side,
                                 transparent |-> material.transparent,
                                 opacity |-> material.opacity])
                    ELSE st.writes,
         uniforms |-> IF renew THEN Append(st.uniforms, new) ELSE st.uniforms]

\* the turn of the loop with a renewal that makes the mesh anew, without its
\* userData
RenderObject_NewMesh(st, j, vp, vt) ==
    LET object == st.list[j]
        material == object.material
        old == object.mesh.material
        needed == st.compilationNeeded \/ ~st.mats[old].program
        renew == RenewNeeded(lastViewport, lastViewType, vp, vt,
                             st.mats[old].transparent, material.transparent)
        new == IF renew
               THEN getMaterialForView(vt, ShaderType(material.type), material.transparent)
               ELSE old
        culled == IF renew THEN vt = RECTILINEAR ELSE object.mesh.frustumCulled
        color == IF renew THEN NoColor ELSE object.mesh.pickingColor
    IN  [list |-> [st.list EXCEPT ![j].mesh.frustumCulled = culled,
                                  ![j].mesh.material = new,
                                  ![j].mesh.pickingColor = color],
         mats |-> [st.mats EXCEPT ![new].side = material.side,
                                  ![new].transparent = material.transparent,
                                  ![new].opacity = material.opacity,
                                  ![new].uniforms = vt],
         compilationNeeded |-> needed,
         replaced |-> IF renew THEN st.replaced \cup {j} ELSE st.replaced,
         writes |-> Append(st.writes,
                           [material |-> new, side |-> material.side,
                            transparent |-> material.transparent,
                            opacity |-> material.opacity]),
         uniforms |-> Append(st.uniforms, new)]

\* one turn of the loop over this._objects, for the object at index j
RenderObject(st, j, vp, vt) ==
    LET object == st.list[j]
        material == object.material
        old == object.mesh.material
        needed == st.compilationNeeded \/ ~st.mats[old].program
        renew == RenewNeeded(lastViewport, lastViewType, vp, vt,
                             st.mats[old].transparent, material.transparent)
        new == IF renew
               THEN getMaterialForView(vt, ShaderType(material.type), material.transparent)
               ELSE old
        culled == IF renew THEN vt = RECTILINEAR ELSE object.mesh.frustumCulled
    IN  [list |-> [st.list EXCEPT ![j].mesh.frustumCulled = culled,
                                  ![j].mesh.material = new],
         mats |-> [st.mats EXCEPT ![new].side = material.side,
                                  ![new].transparent = material.transparent,
                                  ![new].opacity = material.opacity,
                                  ![new].uniforms = vt],
         compilationNeeded |-> needed,
         replaced |-> IF renew THEN st.replaced \cup {j} ELSE st.replaced,
         writes |-> Append(st.writes,
                           [material |-> new, side |-> material.side,
                            transparent |-> material.transparent,
                            opacity |-> material.opacity]),
         uniforms |-> Append(st.uniforms, new)]

RECURSIVE RenderLoop(_, _, _, _)
RenderLoop(st, j, vp, vt) ==
    IF j > Len(st.list) THEN st
    ELSE RenderLoop(RenderObject(st, j, vp, vt), j + 1, vp, vt)

\* THREE.WebGLRenderer: compile, and the draw call as well, give every material
\* of a mesh of the scene its program
InitPrograms(ms, l) ==
    [m \in DOMAIN ms |->
        IF \E j \in 1..Len(l) : l[j].mesh.material = m
        THEN [ms[m] EXCEPT !.program = TRUE]
        ELSE ms[m]]

\* the picking pass whatever the active viewport
PickingPass_AnyViewport(vp, pickable) == Len(pickable) > 0

\* "If current viewport is active and there are some pickable objects"
PickingPass(vp, pickable) == activeViewport = vp /\ Len(pickable) > 0

\* the calls with compile after the draw call
Effects_CompileLate(n, compilationNeeded, picked) ==
    [j \in 1..n |-> "object"]
    \o <<"render">>
    \o (IF compilationNeeded THEN <<"compile">> ELSE <<>>)
    \o (IF picked THEN <<"picking">> ELSE <<>>)
    \o <<"last">>

\* the record of the viewport without the record of its view type
LastValues_StaleViewType(vp, vt) == [viewport |-> vp, viewType |-> lastViewType]

\* the calls render makes to its collaborators, in the order of the code: the
\* turns of the loop, compile, render, the picking pass, the record of the
\* last viewport and view type
Effects(n, compilationNeeded, picked) ==
    [j \in 1..n |-> "object"]
    \o (IF compilationNeeded THEN <<"compile">> ELSE <<>>)
    \o <<"render">>
    \o (IF picked THEN <<"picking">> ELSE <<>>)
    \o <<"last">>

\* "Update viewport and view references for checks in the next call"
LastValues(vp, vt) == [viewport |-> vp, viewType |-> vt]

\* what the call found when it started
Snapshot(vp) ==
    [lastViewport |-> lastViewport, lastViewType |-> lastViewType,
     first |-> ~renderedOnce, viewType |-> viewType[vp],
     transparent |-> [j \in Indices |-> mats[list[j].mesh.material].transparent],
     program |-> [j \in Indices |-> mats[list[j].mesh.material].program]]

\* the empty scene noticed only after the viewport was recorded
RenderEmpty_Records(vp) ==
    /\ Len(children) = 0
    /\ call' = [NoCall EXCEPT !.op = "render", !.viewport = vp, !.returned = TRUE,
                              !.frame = frameNo,
                              !.pre = Snapshot(vp)]
    /\ lastViewport' = vp
    /\ lastViewType' = viewType[vp]
    /\ UNCHANGED <<list, mats, renderedOnce>>

RenderEmpty(vp) ==
    /\ Len(children) = 0
    /\ call' = [NoCall EXCEPT !.op = "render", !.viewport = vp, !.returned = TRUE,
                              !.frame = frameNo,
                              !.pre = Snapshot(vp)]
    /\ UNCHANGED <<list, mats, lastViewport, lastViewType, renderedOnce>>

RenderScene(vp) ==
    /\ Len(children) # 0
    /\ LET vt == viewType[vp]
           done == RenderLoop([list |-> list, mats |-> mats,
                               compilationNeeded |-> FALSE, replaced |-> {},
                               writes |-> <<>>, uniforms |-> <<>>], 1, vp, vt)
           pickable == getPickableObjects(done.list)
           picked == PickingPass(vp, pickable)
       IN  /\ list' = done.list
           /\ mats' = InitPrograms(done.mats, done.list)
           /\ call' = [NoCall EXCEPT !.op = "render", !.viewport = vp,
                          !.frame = frameNo,
                          !.pre = Snapshot(vp),
                          !.replaced = done.replaced,
                          !.uniforms = done.uniforms,
                          !.writes = done.writes,
                          !.pickable = pickable,
                          !.uncompiled = {j \in 1..Len(done.list) :
                              ~done.mats[done.list[j].mesh.material].program},
                          !.effects = Effects(Len(done.list), done.compilationNeeded,
                                              picked),
                          !.compiles = IF done.compilationNeeded THEN 1 ELSE 0,
                          !.draws = 1,
                          !.picks = IF picked THEN <<vp>> ELSE <<>>]
           /\ lastViewport' = LastValues(vp, vt).viewport
           /\ lastViewType' = LastValues(vp, vt).viewType
    /\ renderedOnce' = TRUE

\* render(viewport, target)
RenderCall(vp) ==
    /\ phase = "alive"
    /\ renders < MaxRenders
    /\ renders' = renders + 1
    /\ RenderEmpty(vp) \/ RenderScene(vp)
    /\ UNCHANGED <<phase, viewer, scene, children, objects, picking, viewType,
                   activeViewport, pickingDestroys, mutations>>

\* the host calls render for any viewport
Render ==
    /\ \E vp \in Viewports : RenderCall(vp)
    /\ UNCHANGED <<frame, cursor, frameNo>>

\* the frame driver calls render once per viewport of the frame, frame after
\* frame
FrameRender ==
    /\ frame # <<>>
    /\ RenderCall(frame[cursor + 1])
    /\ cursor' = (cursor + 1) % Len(frame)
    /\ frameNo' = IF cursor + 1 = Len(frame) THEN frameNo + 1 ELSE frameNo
    /\ UNCHANGED frame

\* ------------------------------------------------------------- destroy
\* destroy without "this._lastViewport = null"
Destroy_KeepsViewport ==
    /\ phase \in {"alive", "destroyed"}
    /\ IF picking # NULL
       THEN pickingDestroys' = pickingDestroys + 1 /\ picking' = NULL
       ELSE UNCHANGED <<pickingDestroys, picking>>
    /\ objects' = NULL
    /\ IF scene # NULL
       THEN /\ children' = NULL
            /\ scene' = NULL
            /\ viewer' = NULL
            /\ call' = [NoCall EXCEPT !.op = "destroy"]
       ELSE /\ call' = [NoCall EXCEPT !.op = "destroy", !.exception = "scene"]
            /\ UNCHANGED <<children, scene, viewer>>
    /\ phase' = "destroyed"
    /\ UNCHANGED <<lastViewport, lastViewType, list, mats, viewType, activeViewport,
                   renderedOnce, frame, cursor, frameNo, renders, mutations>>

\* destroy without the null guard of the picking: a later call throws a
\* TypeError at "this._picking.destroy()"
Destroy_NoGuard ==
    /\ phase \in {"alive", "destroyed"}
    /\ IF picking # NULL
       THEN /\ pickingDestroys' = pickingDestroys + 1
            /\ picking' = NULL
            /\ objects' = NULL
            /\ children' = NULL
            /\ scene' = NULL
            /\ lastViewport' = NoViewport
            /\ viewer' = NULL
            /\ call' = [NoCall EXCEPT !.op = "destroy"]
       ELSE /\ call' = [NoCall EXCEPT !.op = "destroy", !.exception = "picking"]
            /\ UNCHANGED <<pickingDestroys, picking, objects, children, scene,
                           lastViewport, viewer>>
    /\ phase' = "destroyed"
    /\ UNCHANGED <<lastViewType, list, mats, viewType, activeViewport, renderedOnce,
                   frame, cursor, frameNo, renders, mutations>>

\* The first call runs to its end.  A later call finds this._scene null and
\* throws a TypeError at "this._scene.children = null", after the guarded
\* release of the picking and the clearing of this._objects.
Destroy ==
    /\ phase \in {"alive", "destroyed"}
    /\ IF picking # NULL
       THEN pickingDestroys' = pickingDestroys + 1 /\ picking' = NULL
       ELSE UNCHANGED <<pickingDestroys, picking>>
    /\ objects' = NULL
    /\ IF scene # NULL
       THEN /\ children' = NULL
            /\ scene' = NULL
            /\ lastViewport' = NoViewport
            /\ viewer' = NULL
            /\ call' = [NoCall EXCEPT !.op = "destroy"]
       ELSE /\ call' = [NoCall EXCEPT !.op = "destroy", !.exception = "scene"]
            /\ UNCHANGED <<children, scene, lastViewport, viewer>>
    /\ phase' = "destroyed"
    /\ UNCHANGED <<lastViewType, list, mats, viewType, activeViewport, renderedOnce,
                   frame, cursor, frameNo, renders, mutations>>

Next ==
    \/ Construct
    \/ SetReady
    \/ SetInteractive
    \/ SetTransparent
    \/ SetMaterialType
    \/ SetOpacity
    \/ SetSide
    \/ SetView
    \/ SetActiveViewport
    \/ GetPickableObjectWithId
    \/ Render
    \/ Destroy

Spec == Init /\ [][Next]_vars

\* The host as the frame driver: a fixed list of viewports, each rendered once
\* per frame and keeping its view, the objects changed between two frames only.
\* every sequence without repetition of at least one viewport
Frames ==
    {f \in UNION {[1..n -> Viewports] : n \in 1..NumViewports} :
        \A i, k \in 1..Len(f) : i # k => f[i] # f[k]}

InitFrames ==
    /\ phase = "new"
    /\ viewer = NULL /\ scene = NULL /\ children = <<>> /\ objects = NULL
    /\ lastViewport = NoViewport /\ lastViewType = NULL /\ picking = NULL
    /\ \E n \in 0..MaxObjects : list = [i \in 1..n |-> NewObject(i)]
    /\ mats = [m \in Materials |-> NewMaterialState(m)]
    /\ viewType = [v \in Viewports |-> RECTILINEAR]
    /\ activeViewport = 1
    /\ pickingDestroys = 0
    /\ renderedOnce = FALSE
    /\ frame \in Frames /\ cursor = 0 /\ frameNo = 0
    /\ call = NoCall
    /\ renders = 0
    /\ mutations = 0

NextFrames ==
    \/ Construct
    \/ SetTransparent
    \/ FrameRender
    \/ Destroy

SpecFrames == InitFrames /\ [][NextFrames]_vars

\* ------------------------------------------------------------- claims
RenderedScene == call.op = "render" /\ ~call.returned

\* C1: a render call on a non-empty container replaces the material of an
\* object's mesh if and only if it is the first such call of the instance, or
\* the viewport differs from the last recorded one, or the view type differs
\* from the last recorded one, or the object's declared transparency differs
\* from the transparency of the material its mesh had.
C1_ReplacedIff ==
    RenderedScene =>
        \A j \in Indices :
            j \in call.replaced <=>
                \/ call.pre.first
                \/ call.pre.lastViewport # call.viewport
                \/ call.pre.lastViewType # call.pre.viewType
                \/ call.pre.transparent[j] # list[j].material.transparent

\* C2: a render call invokes the picking pass, once and with its own viewport,
\* if and only if that viewport is the active viewport and some object is
\* ready and interactive; an empty container never gets a picking pass.
C2_PickingIff ==
    call.op = "render" =>
        call.picks =
            IF /\ call.viewport = activeViewport
               /\ \E j \in Indices : list[j].ready /\ list[j].interactive
            THEN <<call.viewport>>
            ELSE <<>>

C2_Witness ==
    /\ RenderedScene
    /\ call.picks = <<call.viewport>>
    /\ mutations > 0

\* C3: getPickableObjectWithId(id) returns the object whose mesh has the id
\* when that object is ready and interactive now, and undefined for every
\* other id, the id of an object that is not ready or not interactive included.
C3_GetPickable ==
    call.op = "get" =>
        LET found == {j \in Indices : /\ list[j].mesh.id = call.id
                                      /\ list[j].ready
                                      /\ list[j].interactive}
        IN  IF found = {} THEN call.result = 0 ELSE call.result \in found

C3_Witness ==
    /\ call.op = "get"
    /\ call.result = 0
    /\ mutations > 0
    /\ \E j \in Indices : list[j].mesh.id = call.id /\ list[j].ready

\* C4: right after construction the scene has as many children as the list
\* has objects, every mesh has a picking color, and the picking colors of two
\* meshes differ.
C4_Booted ==
    call.op = "construct" =>
        /\ Len(children) = Len(list)
        /\ \A j \in Indices : list[j].mesh.pickingColor # NoColor
        /\ \A i, j \in Indices :
              i # j => list[i].mesh.pickingColor # list[j].mesh.pickingColor

C4_Witness ==
    /\ call.op = "construct"
    /\ Len(list) >= 2

\* C5: after a render call on a non-empty container every mesh is frustum
\* culled if and only if the view type of the rendered viewport is
\* RECTILINEAR, whether its material was replaced or not.
C5_Culling ==
    RenderedScene =>
        \A j \in Indices :
            list[j].mesh.frustumCulled <=> (viewType[call.viewport] = RECTILINEAR)

C5_Witness ==
    /\ RenderedScene
    /\ call.replaced = {}
    /\ viewType[call.viewport] = GOPRO
    /\ \A j \in Indices : ~list[j].mesh.frustumCulled

\* C6: with an empty object list a render call compiles nothing, draws
\* nothing, picks nothing, throws nothing and leaves lastViewport and
\* lastViewType as they were.
C6_EmptyNoOp ==
    (call.op = "render" /\ Len(list) = 0) =>
        /\ call.compiles = 0
        /\ call.draws = 0
        /\ call.picks = <<>>
        /\ call.exception = NULL
        /\ lastViewport = call.pre.lastViewport
        /\ lastViewType = call.pre.lastViewType

C6_Witness ==
    /\ call.op = "render"
    /\ Len(list) = 0
    /\ renders >= 2

\* C7: after destroy the picking, the object list, the scene, the last
\* viewport and the viewer are all null.
C7_Cleared ==
    phase = "destroyed" =>
        /\ picking = NULL
        /\ objects = NULL
        /\ scene = NULL
        /\ lastViewport = NoViewport
        /\ viewer = NULL

C7_Witness ==
    /\ phase = "destroyed"
    /\ call.op = "destroy"
    /\ call.exception = NULL
    /\ renderedOnce

\* C8: the picking is destroyed exactly once: by the first destroy call, and a
\* later destroy call neither destroys it again nor fails at that step.
C8_PickingReleasedOnce ==
    /\ phase = "destroyed" => pickingDestroys = 1
    /\ phase # "destroyed" => pickingDestroys = 0
    /\ call.op = "destroy" => call.exception # "picking"

C8_Witness ==
    /\ call.op = "destroy"
    /\ call.exception = "scene"
    /\ pickingDestroys = 1
    /\ renderedOnce

\* C9 as claimed: right after construction and right after destroy,
\* lastViewport is null and lastViewType is UNDEFINED.
C9_CacheCleared ==
    call.op \in {"construct", "destroy"} =>
        lastViewport = NoViewport /\ lastViewType = UNDEFINED

\* C9, amended: construction leaves lastViewport null and lastViewType
\* UNDEFINED; destroy leaves lastViewport null and lastViewType as it was.
C9_CacheClearedAmended ==
    [][/\ call'.op = "construct" =>
            lastViewport' = NoViewport /\ lastViewType' = UNDEFINED
       /\ call'.op = "destroy" =>
            lastViewport' = NoViewport /\ lastViewType' = lastViewType]_vars

C9_Witness ==
    /\ call.op = "destroy"
    /\ lastViewport = NoViewport
    /\ lastViewType = GOPRO

\* C10: when the frame driver renders the same viewports once per frame and
\* no view type and no transparency changes, no render call of a frame after
\* the first replaces a material.
C10_NoReplacementAfterFirstFrame ==
    (RenderedScene /\ call.frame >= 1) => call.replaced = {}

\* C11: the pickable objects are exactly the objects that are ready and
\* interactive when asked for, in the order of the list, for the query and
\* for the picking decision of a render call alike, whatever the flags were
\* before.
C11_PickableExact ==
    (call.op = "get" \/ RenderedScene) =>
        /\ \A k, m \in 1..Len(call.pickable) :
              k < m => call.pickable[k] < call.pickable[m]
        /\ {call.pickable[k] : k \in 1..Len(call.pickable)} =
              {j \in Indices : list[j].ready /\ list[j].interactive}
        /\ RenderedScene =>
              (call.picks # <<>> <=>
                  (call.viewport = activeViewport /\ call.pickable # <<>>))

C11_Witness ==
    /\ RenderedScene
    /\ mutations > 0
    /\ Len(call.pickable) >= 2
    /\ call.picks # <<>>

\* C12: a render call on a non-empty container writes, for every object of
\* the list, the side, the transparency and the opacity of the object's
\* descriptor to the material assigned to its mesh, and calls updateUniforms
\* once for that mesh, on the uniforms of that material, replaced or not.
C12_Refreshed ==
    RenderedScene =>
        /\ Len(call.writes) = Len(list)
        /\ Len(call.uniforms) = Len(list)
        /\ \A j \in Indices :
              /\ call.writes[j].material = list[j].mesh.material
              /\ call.writes[j].side = list[j].material.side
              /\ call.writes[j].transparent = list[j].material.transparent
              /\ call.writes[j].opacity = list[j].material.opacity
              /\ call.uniforms[j] = list[j].mesh.material
              /\ mats[list[j].mesh.material].uniforms = viewType[call.viewport]

C12_Witness ==
    /\ RenderedScene
    /\ call.replaced = {}
    /\ \E j \in Indices : ~list[j].ready
    /\ \E j \in Indices : list[j].material.opacity = 50

\* C13: at the draw call of a render call the opacity, the side and the
\* transparency of the material assigned to every object's mesh are the
\* object's own, objects that share a material included.
C13_MaterialCorrectAtDraw ==
    RenderedScene =>
        \A j \in Indices :
            /\ mats[list[j].mesh.material].opacity = list[j].material.opacity
            /\ mats[list[j].mesh.material].side = list[j].material.side
            /\ mats[list[j].mesh.material].transparent = list[j].material.transparent

\* C14: after a render call on a non-empty container the mesh of every object
\* has the material of the key (view type of the rendered viewport, "color"
\* for a GRAPHICS material and "map" otherwise, declared transparency).
C14_MaterialOfKey ==
    RenderedScene =>
        \A j \in Indices :
            list[j].mesh.material =
                PoolMaterial(viewType[call.viewport],
                             IF list[j].material.type = GRAPHICS THEN "color" ELSE "map",
                             list[j].material.transparent)

\* C15: a render call on a non-empty container makes its calls in this order:
\* the turns of the loop, compile (if and only if the material of some mesh
\* had no program when the call examined it), render exactly once, the
\* picking pass if any, and last the record of the viewport and view type.
C15_Order ==
    RenderedScene =>
        LET e == call.effects
            At(name) == {k \in 1..Len(e) : e[k] = name}
            Before(a, b) == \A k \in At(a), m \in At(b) : k < m
        IN  /\ Cardinality(At("object")) = Len(list)
            /\ Cardinality(At("render")) = 1
            /\ Cardinality(At("compile")) <= 1
            /\ Cardinality(At("picking")) <= 1
            /\ Cardinality(At("last")) = 1
            /\ Before("object", "compile") /\ Before("object", "render")
            /\ Before("compile", "render")
            /\ Before("render", "picking")
            /\ Before("render", "last") /\ Before("picking", "last")
            /\ At("compile") # {} <=> \E j \in Indices : ~call.pre.program[j]
            /\ At("picking") # {} <=> call.picks # <<>>
            /\ e[Len(e)] = "last"

C15_Witness ==
    /\ RenderedScene
    /\ call.compiles = 1
    /\ call.picks # <<>>
    /\ Len(call.effects) = Len(list) + 4
    /\ Len(list) >= 2

\* C16: if, at the draw call of a render call, the material assigned to some
\* mesh has no program from before the call, the call compiled the scene
\* before the draw call.
C16_CompiledBeforeDraw ==
    RenderedScene => (call.uncompiled # {} => call.compiles = 1)

\* C17: a render call on a non-empty container leaves the viewport of the
\* call in lastViewport and its view type in lastViewType, and nothing but a
\* render call or destroy changes the two afterwards.
C17_LastRecorded ==
    [][/\ (call'.op = "render" /\ ~call'.returned) =>
            /\ lastViewport' = call'.viewport
            /\ lastViewType' = viewType[call'.viewport]
       /\ (phase = "alive" /\ call'.op \notin {"render", "destroy"}) =>
            /\ lastViewport' = lastViewport
            /\ lastViewType' = lastViewType]_vars

C17_Witness ==
    /\ call.op = "mutate"
    /\ lastViewport # NoViewport
    /\ lastViewType = RECTILINEAR
    /\ viewType[lastViewport] = GOPRO

\* C18: render and getPickableObjectWithId change neither the list, nor the
\* children of the scene, nor a picking color, nor a ready or interactive
\* flag; the children stay the meshes of the list and the picking colors stay
\* distinct.
C18_RegistryUntouched ==
    [][call'.op \in {"render", "get"} =>
          /\ children' = children
          /\ Len(list') = Len(list)
          /\ \A j \in Indices :
                /\ list'[j].mesh.id = list[j].mesh.id
                /\ list'[j].mesh.pickingColor = list[j].mesh.pickingColor
                /\ list'[j].ready = list[j].ready
                /\ list'[j].interactive = list[j].interactive
                /\ list'[j].material = list[j].material
          /\ children' = [j \in 1..Len(list') |-> list'[j].mesh.id]
          /\ \A i, j \in 1..Len(list') :
                i # j => list'[i].mesh.pickingColor # list'[j].mesh.pickingColor]_vars

C18_Witness ==
    /\ RenderedScene
    /\ renders >= 2
    /\ call.replaced # {}
    /\ Len(list) >= 2
    /\ children = [j \in Indices |-> list[j].mesh.id]

====
